---- MODULE Spec2Model ----
(***************************************************************************)
(* Late Show API: three tables (episodes, guests, appearances) in a SQLite *)
(* store, the seeding script, and the four request handlers of routes.py.  *)
(* Text columns that the code strips or orders by (guest name, occupation) *)
(* are sequences of byte values, so that str.strip() and ORDER BY are      *)
(* computed; the episode date is an opaque string.                         *)
(***************************************************************************)
EXTENDS Integers, Sequences, FiniteSets, TLC

VARIABLES episodes,     \* table episodes: rows [id, date, number] in rowid order
          guests,       \* table guests: rows [id, name, occupation] in rowid order
          appearances,  \* table appearances: rows [id, rating, guest_id, episode_id]
          req,          \* the last operation run: request or seeding script
          resp          \* its HTTP response [status, body]

vars == <<episodes, guests, appearances, req, resp>>

(***************************************************************************)
(* Bounds of the model.                                                    *)
(***************************************************************************)
\* number of successful POST /appearances after a seeding
MaxPosts == 2
\* number of data rows of data/guest_data.csv
MaxCsvRows == 2

(***************************************************************************)
(* JSON values of a request body, tagged with their JSON type.             *)
(***************************************************************************)
JNull == [t |-> "null"]
JInt(n) == [t |-> "int", n |-> n]
JBool(b) == [t |-> "bool", b |-> b]
JStr(s) == [t |-> "str", s |-> s]

\* Python's None for a query that finds no row
None == [t |-> "none"]

\* isinstance(v, int): Python's bool is a subclass of int
isinstance_int(v) == v.t \in {"int", "bool"}

\* the integer a Python int or bool compares as (True == 1, False == 0)
int_value(v) == IF v.t = "bool" THEN (IF v.b THEN 1 ELSE 0) ELSE v.n

(***************************************************************************)
(* Text as bytes.                                                          *)
(***************************************************************************)
\* the characters str.strip() removes
Whitespace == {9, 10, 11, 12, 13, 28, 29, 30, 31, 32}

RECURSIVE lstrip(_)
lstrip(s) == IF s # <<>> /\ Head(s) \in Whitespace THEN lstrip(Tail(s)) ELSE s

RECURSIVE rstrip(_)
rstrip(s) ==
    IF s # <<>> /\ s[Len(s)] \in Whitespace THEN rstrip(SubSeq(s, 1, Len(s) - 1)) ELSE s

\* str.strip()
strip(s) == rstrip(lstrip(s))

\* SQLite's BINARY collation (memcmp, then length): a < b
RECURSIVE BinaryLess(_, _)
BinaryLess(a, b) ==
    IF b = <<>> THEN FALSE
    ELSE IF a = <<>> THEN TRUE
    ELSE IF Head(a) # Head(b) THEN Head(a) < Head(b)
    ELSE BinaryLess(Tail(a), Tail(b))

(***************************************************************************)
(* The store.  SQLite gives a new row the id max(id) + 1, and 1 in an      *)
(* empty table; foreign keys are declared but SQLite does not enforce them *)
(* unless PRAGMA foreign_keys is set, which nothing in the code does.      *)
(***************************************************************************)
\* the largest id of a table; its rows are kept in rowid order, so it is the
\* last row's
MaxId(table) == IF table = <<>> THEN 0 ELSE table[Len(table)].id

\* db.session.add of the rows, then commit: each row gets the next id
RECURSIVE add_all(_, _)
add_all(table, rows) ==
    IF rows = <<>> THEN table
    ELSE add_all(Append(table, [id |-> MaxId(table) + 1] @@ Head(rows)), Tail(rows))

\* Model.query.get(id): the row with that primary key, or None
query_get(table, id) ==
    IF \E i \in 1..Len(table) : table[i].id = id
    THEN table[CHOOSE i \in 1..Len(table) : table[i].id = id]
    ELSE None

(***************************************************************************)
(* models.py                                                               *)
(***************************************************************************)
\* Appearance.validate_rating: the value, or ValueError
validate_rating(rating) ==
    IF int_value(rating) < 1 \/ int_value(rating) > 5
    THEN [ok |-> FALSE, exc |-> "ValueError"]
    ELSE [ok |-> TRUE, val |-> rating]

\* the Integer column rating: SQLite stores a bound Python bool as 0 or 1
rating_column(rating) == int_value(rating)

RECURSIVE Episode_to_dict(_, _, _)
RECURSIVE Guest_to_dict(_, _, _)
RECURSIVE Appearance_to_dict(_, _, _, _)
RECURSIVE to_dict_all(_, _, _, _)

\* [appearance.to_dict(include_guest, include_episode) for appearance in rows]:
\* the list, or the first exception raised
to_dict_all(rows, include_guest, include_episode, db) ==
    IF rows = <<>> THEN [ok |-> TRUE, val |-> <<>>]
    ELSE LET first == Appearance_to_dict(Head(rows), include_guest, include_episode, db)
         IN  IF ~first.ok THEN first
             ELSE LET rest == to_dict_all(Tail(rows), include_guest, include_episode, db)
                  IN  IF ~rest.ok THEN rest
                      ELSE [ok |-> TRUE, val |-> <<first.val>> \o rest.val]

\* Episode.to_dict(include_appearances); self.appearances.all() are the
\* appearance rows whose episode_id is self.id
Episode_to_dict(self, include_appearances, db) ==
    LET result == [id |-> self.id, date |-> self.date, number |-> self.number]
    IN  IF include_appearances
        THEN LET mine == SelectSeq(db.appearances, LAMBDA a : a.episode_id = self.id)
                 list == to_dict_all(mine, TRUE, FALSE, db)
             IN  IF ~list.ok THEN list
                 ELSE [ok |-> TRUE, val |-> result @@ [appearances |-> list.val]]
        ELSE [ok |-> TRUE, val |-> result]

\* Guest.to_dict(include_appearances)
Guest_to_dict(self, include_appearances, db) ==
    LET result == [id |-> self.id, name |-> self.name, occupation |-> self.occupation]
    IN  IF include_appearances
        THEN LET mine == SelectSeq(db.appearances, LAMBDA a : a.guest_id = self.id)
                 list == to_dict_all(mine, FALSE, TRUE, db)
             IN  IF ~list.ok THEN list
                 ELSE [ok |-> TRUE, val |-> result @@ [appearances |-> list.val]]
        ELSE [ok |-> TRUE, val |-> result]

\* variant of Appearance.to_dict: the nested guest serialized with
\* include_appearances=True
Appearance_to_dict_deep(self, include_guest, include_episode, db) ==
    LET result == [id |-> self.id, rating |-> self.rating,
                   guest_id |-> self.guest_id, episode_id |-> self.episode_id]
        guest == query_get(db.guests, self.guest_id)
        episode == query_get(db.episodes, self.episode_id)
        g == IF ~include_guest THEN [ok |-> TRUE, val |-> result]
             ELSE IF guest = None THEN [ok |-> FALSE, exc |-> "AttributeError"]
             ELSE LET d == Guest_to_dict(guest, TRUE, db)
                  IN  IF ~d.ok THEN d ELSE [ok |-> TRUE, val |-> result @@ [guest |-> d.val]]
    IN  IF ~g.ok THEN g
        ELSE IF ~include_episode THEN g
        ELSE IF episode = None THEN [ok |-> FALSE, exc |-> "AttributeError"]
        ELSE LET d == Episode_to_dict(episode, FALSE, db)
             IN  IF ~d.ok THEN d ELSE [ok |-> TRUE, val |-> g.val @@ [episode |-> d.val]]

\* Appearance.to_dict(include_guest, include_episode); self.guest and
\* self.episode are the rows the foreign keys name, None when there is none,
\* and None.to_dict() raises AttributeError
Appearance_to_dict(self, include_guest, include_episode, db) ==
    LET result == [id |-> self.id, rating |-> self.rating,
                   guest_id |-> self.guest_id, episode_id |-> self.episode_id]
        guest == query_get(db.guests, self.guest_id)
        episode == query_get(db.episodes, self.episode_id)
        g == IF ~include_guest THEN [ok |-> TRUE, val |-> result]
             ELSE IF guest = None THEN [ok |-> FALSE, exc |-> "AttributeError"]
             ELSE LET d == Guest_to_dict(guest, FALSE, db)
                  IN  IF ~d.ok THEN d ELSE [ok |-> TRUE, val |-> result @@ [guest |-> d.val]]
    IN  IF ~g.ok THEN g
        ELSE IF ~include_episode THEN g
        ELSE IF episode = None THEN [ok |-> FALSE, exc |-> "AttributeError"]
        ELSE LET d == Episode_to_dict(episode, FALSE, db)
             IN  IF ~d.ok THEN d ELSE [ok |-> TRUE, val |-> g.val @@ [episode |-> d.val]]

(***************************************************************************)
(* seed.py                                                                 *)
(***************************************************************************)
B_actor == <<97, 99, 116, 111, 114>>
B_Comedian == <<67, 111, 109, 101, 100, 105, 97, 110>>
B_comedian == <<99, 111, 109, 101, 100, 105, 97, 110>>
B_actress == <<97, 99, 116, 114, 101, 115, 115>>
B_television_actress ==
    <<116, 101, 108, 101, 118, 105, 115, 105, 111, 110, 32>> \o B_actress

\* the ten sample episodes
sample_episodes ==
    << [date |-> "1/11/99", number |-> 1], [date |-> "1/12/99", number |-> 2],
       [date |-> "1/13/99", number |-> 3], [date |-> "1/14/99", number |-> 4],
       [date |-> "1/15/99", number |-> 5], [date |-> "1/18/99", number |-> 6],
       [date |-> "1/19/99", number |-> 7], [date |-> "1/20/99", number |-> 8],
       [date |-> "1/21/99", number |-> 9], [date |-> "1/22/99", number |-> 10] >>

\* create_sample_guests: Michael J. Fox, Sandra Bernhard, Tracey Ullman,
\* Bradley Whitford, Janeane Garofalo, William Baldwin, John Turturro,
\* Minnie Driver
create_sample_guests ==
    << [name |-> <<77, 105, 99, 104, 97, 101, 108, 32, 74, 46, 32, 70, 111, 120>>,
        occupation |-> B_actor],
       [name |-> <<83, 97, 110, 100, 114, 97, 32, 66, 101, 114, 110, 104, 97, 114, 100>>,
        occupation |-> B_Comedian],
       [name |-> <<84, 114, 97, 99, 101, 121, 32, 85, 108, 108, 109, 97, 110>>,
        occupation |-> B_television_actress],
       [name |-> <<66, 114, 97, 100, 108, 101, 121, 32, 87, 104, 105, 116, 102, 111, 114, 100>>,
        occupation |-> B_actor],
       [name |-> <<74, 97, 110, 101, 97, 110, 101, 32, 71, 97, 114, 111, 102, 97, 108, 111>>,
        occupation |-> B_comedian],
       [name |-> <<87, 105, 108, 108, 105, 97, 109, 32, 66, 97, 108, 100, 119, 105, 110>>,
        occupation |-> B_actor],
       [name |-> <<74, 111, 104, 110, 32, 84, 117, 114, 116, 117, 114, 114, 111>>,
        occupation |-> B_actor],
       [name |-> <<77, 105, 110, 110, 105, 101, 32, 68, 114, 105, 118, 101, 114>>,
        occupation |-> B_actress] >>

\* the 26 sample appearances, as <<rating, guest_id, episode_id>>
sample_appearances ==
    << <<4, 1, 1>>, <<5, 2, 1>>, <<3, 3, 1>>,
       <<5, 3, 2>>, <<4, 4, 2>>, <<5, 5, 2>>,
       <<4, 1, 3>>, <<3, 6, 3>>, <<5, 7, 3>>,
       <<4, 2, 4>>, <<5, 8, 4>>,
       <<3, 4, 5>>, <<4, 5, 5>>, <<5, 6, 5>>,
       <<5, 1, 6>>, <<4, 3, 6>>,
       <<3, 7, 7>>, <<5, 8, 7>>, <<4, 2, 7>>,
       <<4, 5, 8>>, <<5, 6, 8>>,
       <<3, 1, 9>>, <<4, 4, 9>>, <<5, 7, 9>>,
       <<5, 3, 10>>, <<4, 8, 10>> >>

\* Appearance(rating=.., guest_id=.., episode_id=..) for each sample: the
\* constructor runs validate_rating; a ValueError would end the script
RECURSIVE construct_all(_)
construct_all(triples) ==
    IF triples = <<>> THEN [ok |-> TRUE, val |-> <<>>]
    ELSE LET v == validate_rating(JInt(Head(triples)[1]))
             rest == construct_all(Tail(triples))
         IN  IF ~v.ok THEN v
             ELSE IF ~rest.ok THEN rest
             ELSE [ok |-> TRUE,
                   val |-> << [rating |-> rating_column(v.val),
                               guest_id |-> Head(triples)[2],
                               episode_id |-> Head(triples)[3]] >> \o rest.val]

\* the Guest objects built from the rows of guest_data.csv
RECURSIVE csv_guests(_)
csv_guests(rows) ==
    IF rows = <<>> THEN <<>>
    ELSE << [name |-> strip(Head(rows).name),
             occupation |-> strip(Head(rows).occupation)] >> \o csv_guests(Tail(rows))

\* The guests the script adds to the session.  csv.exists: data/guest_data.csv
\* is there; csv.rows: the rows read from it; csv.error: reading raised after
\* those rows (they stay in the session, and the sample guests follow).
seed_guests(csv) ==
    IF csv.exists
    THEN IF csv.error THEN csv_guests(csv.rows) \o create_sample_guests
         ELSE csv_guests(csv.rows)
    ELSE create_sample_guests

\* seed_database: the three Query.delete() calls empty the tables, then three
\* commits fill them.  The result is the new store.
seed_database(csv) ==
    LET built == construct_all(sample_appearances)
    IN  [episodes |-> add_all(<<>>, sample_episodes),
         guests |-> add_all(<<>>, seed_guests(csv)),
         appearances |-> IF built.ok THEN add_all(<<>>, built.val) ELSE <<>>]

(***************************************************************************)
(* routes.py                                                               *)
(***************************************************************************)
\* insertion of row r into a list sorted by number, after its equals
RECURSIVE insert_by_number(_, _)
insert_by_number(r, sorted) ==
    IF sorted = <<>> THEN <<r>>
    ELSE IF r.number < Head(sorted).number THEN <<r>> \o sorted
    ELSE <<Head(sorted)>> \o insert_by_number(r, Tail(sorted))

RECURSIVE sort_by_number(_, _)
sort_by_number(rows, sorted) ==
    IF rows = <<>> THEN sorted
    ELSE sort_by_number(Tail(rows), insert_by_number(Head(rows), sorted))

\* variant of order_by_number: descending order
RECURSIVE insert_by_number_desc(_, _)
insert_by_number_desc(r, sorted) ==
    IF sorted = <<>> THEN <<r>>
    ELSE IF r.number > Head(sorted).number THEN <<r>> \o sorted
    ELSE <<Head(sorted)>> \o insert_by_number_desc(r, Tail(sorted))

RECURSIVE sort_by_number_desc(_, _)
sort_by_number_desc(rows, sorted) ==
    IF rows = <<>> THEN sorted
    ELSE sort_by_number_desc(Tail(rows), insert_by_number_desc(Head(rows), sorted))

order_by_number_desc(rows) == sort_by_number_desc(rows, <<>>)

\* Episode.query.order_by(Episode.number).all()
order_by_number(rows) == sort_by_number(rows, <<>>)

RECURSIVE insert_by_name(_, _)
insert_by_name(r, sorted) ==
    IF sorted = <<>> THEN <<r>>
    ELSE IF BinaryLess(r.name, Head(sorted).name) THEN <<r>> \o sorted
    ELSE <<Head(sorted)>> \o insert_by_name(r, Tail(sorted))

RECURSIVE sort_by_name(_, _)
sort_by_name(rows, sorted) ==
    IF rows = <<>> THEN sorted
    ELSE sort_by_name(Tail(rows), insert_by_name(Head(rows), sorted))

\* variant of order_by_name: no ORDER BY, the rows come in rowid order
order_by_id(rows) == rows

\* Guest.query.order_by(Guest.name).all(); rows of equal name stay in rowid order
order_by_name(rows) == sort_by_name(rows, <<>>)

\* [episode.to_dict(include_appearances=False) for episode in episodes]
RECURSIVE episodes_list(_, _)
episodes_list(rows, db) ==
    IF rows = <<>> THEN <<>>
    ELSE <<Episode_to_dict(Head(rows), FALSE, db).val>> \o episodes_list(Tail(rows), db)

\* [guest.to_dict(include_appearances=False) for guest in guests]
RECURSIVE guests_list(_, _)
guests_list(rows, db) ==
    IF rows = <<>> THEN <<>>
    ELSE <<Guest_to_dict(Head(rows), FALSE, db).val>> \o guests_list(Tail(rows), db)

\* A view's outcome: [ok |-> TRUE, appearances, resp] when it returns, or
\* [ok |-> FALSE, appearances, exc] when it raises; appearances is the
\* committed table at that point.

\* GET /episodes
get_episodes(db) ==
    [ok |-> TRUE, appearances |-> db.appearances,
     resp |-> [status |-> 200, body |-> episodes_list(order_by_number(db.episodes), db)]]

\* GET /episodes/<int:episode_id>
get_episode(episode_id, db) ==
    LET episode == query_get(db.episodes, episode_id)
    IN  IF episode = None
        THEN [ok |-> TRUE, appearances |-> db.appearances,
              resp |-> [status |-> 404, body |-> [error |-> "Episode not found"]]]
        ELSE LET episode_data == Episode_to_dict(episode, TRUE, db)
             IN  IF ~episode_data.ok
                 THEN [ok |-> FALSE, appearances |-> db.appearances,
                       exc |-> episode_data.exc]
                 ELSE [ok |-> TRUE, appearances |-> db.appearances,
                       resp |-> [status |-> 200, body |-> episode_data.val]]

\* GET /guests
get_guests(db) ==
    [ok |-> TRUE, appearances |-> db.appearances,
     resp |-> [status |-> 200, body |-> guests_list(order_by_name(db.guests), db)]]

\* lines 173-179: the rating checks
\* variant of rating_errors: the lower bound tested as rating < 0
rating_errors_lt(rating) ==
    IF rating = JNull THEN <<"Rating is required">>
    ELSE IF ~isinstance_int(rating) THEN <<"Rating must be an integer">>
    ELSE IF int_value(rating) < 0 \/ int_value(rating) > 5
         THEN <<"Rating must be between 1 and 5 (inclusive)">>
    ELSE <<>>

rating_errors(rating) ==
    IF rating = JNull THEN <<"Rating is required">>
    ELSE IF ~isinstance_int(rating) THEN <<"Rating must be an integer">>
    ELSE IF int_value(rating) < 1 \/ int_value(rating) > 5
         THEN <<"Rating must be between 1 and 5 (inclusive)">>
    ELSE <<>>

\* lines 181-188: the episode_id checks
episode_errors(episode_id, db) ==
    IF episode_id = JNull THEN <<"Episode ID is required">>
    ELSE IF query_get(db.episodes, episode_id.n) = None THEN <<"Episode not found">>
    ELSE <<>>

\* lines 190-197: the guest_id checks
guest_errors(guest_id, db) ==
    IF guest_id = JNull THEN <<"Guest ID is required">>
    ELSE IF query_get(db.guests, guest_id.n) = None THEN <<"Guest not found">>
    ELSE <<>>

\* lines 170-197: the list of validation errors
collect_errors(data, db) ==
    rating_errors(data.rating) \o episode_errors(data.episode_id, db)
        \o guest_errors(data.guest_id, db)

\* variant of create_row: the 201 left out of the return, so Flask answers 200
create_row_status_200(data, db) ==
    LET appearance == [id |-> MaxId(db.appearances) + 1,
                       rating |-> rating_column(data.rating),
                       guest_id |-> data.guest_id.n,
                       episode_id |-> data.episode_id.n]
        committed == [db EXCEPT !.appearances = Append(@, appearance)]
    IN  [ok |-> TRUE, appearances |-> committed.appearances,
         resp |-> [status |-> 200,
                   body |-> Appearance_to_dict(appearance, TRUE, TRUE, committed).val]]

\* variant of create_row: the new row takes the last row's id and replaces it
create_row_overwrite(data, db) ==
    LET appearance == [id |-> MaxId(db.appearances),
                       rating |-> rating_column(data.rating),
                       guest_id |-> data.guest_id.n,
                       episode_id |-> data.episode_id.n]
        committed == [db EXCEPT !.appearances =
                         SubSeq(@, 1, Len(@) - 1) \o <<appearance>>]
    IN  [ok |-> TRUE, appearances |-> committed.appearances,
         resp |-> [status |-> 201,
                   body |-> Appearance_to_dict(appearance, TRUE, TRUE, committed).val]]

\* lines 203-217: construct the Appearance (validate_rating runs on
\* assignment), add it, commit, serialize it from the committed store
create_row(data, db) ==
    LET v == validate_rating(data.rating)
        appearance == [id |-> MaxId(db.appearances) + 1,
                       rating |-> rating_column(v.val),
                       guest_id |-> data.guest_id.n,
                       episode_id |-> data.episode_id.n]
        committed == [db EXCEPT !.appearances = Append(@, appearance)]
        body == Appearance_to_dict(appearance, TRUE, TRUE, committed)
    IN  IF ~v.ok THEN [ok |-> FALSE, appearances |-> db.appearances, exc |-> v.exc]
        ELSE IF ~body.ok
             THEN [ok |-> FALSE, appearances |-> committed.appearances, exc |-> body.exc]
        ELSE [ok |-> TRUE, appearances |-> committed.appearances,
              resp |-> [status |-> 201, body |-> body.val]]

\* POST /appearances; data is request.get_json(), and data.get raises
\* AttributeError when the JSON body is not an object
create_appearance(data, db) ==
    IF data.t # "object"
    THEN [ok |-> FALSE, appearances |-> db.appearances, exc |-> "AttributeError"]
    ELSE LET errors == collect_errors(data, db)
         IN  IF errors # <<>>
             THEN [ok |-> TRUE, appearances |-> db.appearances,
                   resp |-> [status |-> 400, body |-> [errors |-> errors]]]
             ELSE create_row(data, db)

\* variant of internal_error: the 500 left out of the return
internal_error_status_200(error) ==
    [appearances |-> error.appearances,
     resp |-> [status |-> 200, body |-> [error |-> "Internal server error"]]]

\* the 500 handler: db.session.rollback() leaves the committed table as it is
internal_error(error) ==
    [appearances |-> error.appearances,
     resp |-> [status |-> 500, body |-> [error |-> "Internal server error"]]]

\* what a request leaves: the view's response, or the 500 handler's
dispatch(outcome) ==
    IF outcome.ok THEN [appearances |-> outcome.appearances, resp |-> outcome.resp]
    ELSE internal_error(outcome)

(***************************************************************************)
(* The inputs.                                                             *)
(***************************************************************************)
\* " Al", "zoe"
CsvNames == { <<32, 65, 108>>, <<122, 111, 101>> }
CsvRows == { [name |-> n, occupation |-> B_actor \o <<32>>] : n \in CsvNames }

RECURSIVE SeqsUpTo(_, _)
SeqsUpTo(S, n) ==
    IF n = 0 THEN {<<>>}
    ELSE LET shorter == SeqsUpTo(S, n - 1)
         IN  shorter \cup {Append(q, x) : q \in shorter, x \in S}

CsvFiles ==
    {[exists |-> FALSE, rows |-> <<>>, error |-> FALSE]}
        \cup {[exists |-> TRUE, rows |-> r, error |-> e] :
                r \in SeqsUpTo(CsvRows, MaxCsvRows), e \in BOOLEAN}

Ratings == {JNull, JStr("5"), JBool(TRUE), JInt(0), JInt(5), JInt(6)}
EpisodeIds == {JNull, JInt(2), JInt(9999)}
GuestIds == {JNull, JInt(3), JInt(9999)}
Bodies ==
    {[t |-> "array"]}
        \cup {[t |-> "object", rating |-> r, episode_id |-> e, guest_id |-> g] :
                r \in Ratings, e \in EpisodeIds, g \in GuestIds}
PathIds == {0, 1, 2, 9999}

(***************************************************************************)
(* The state machine.                                                      *)
(***************************************************************************)
store == [episodes |-> episodes, guests |-> guests, appearances |-> appearances]

\* the tables as the migrations create them: empty
Init ==
    /\ episodes = <<>>
    /\ guests = <<>>
    /\ appearances = <<>>
    /\ req = [op |-> "start"]
    /\ resp = [status |-> 0, body |-> <<>>]

\* the stores python seed.py can leave, one per guest_data.csv
SeededStores == {seed_database(csv) : csv \in CsvFiles}

\* python seed.py
Seed ==
    \E seeded \in SeededStores :
        /\ episodes' = seeded.episodes
        /\ guests' = seeded.guests
        /\ appearances' = seeded.appearances
        /\ req' = [op |-> "seed"]
        /\ resp' = [status |-> 0, body |-> <<>>]

GetEpisodes ==
    LET done == dispatch(get_episodes(store))
    IN  /\ req' = [op |-> "GET /episodes"]
        /\ resp' = done.resp
        /\ appearances' = done.appearances
        /\ UNCHANGED <<episodes, guests>>

GetEpisode ==
    \E id \in PathIds :
        LET done == dispatch(get_episode(id, store))
        IN  /\ req' = [op |-> "GET /episodes/id", id |-> id]
            /\ resp' = done.resp
            /\ appearances' = done.appearances
            /\ UNCHANGED <<episodes, guests>>

GetGuests ==
    LET done == dispatch(get_guests(store))
    IN  /\ req' = [op |-> "GET /guests"]
        /\ resp' = done.resp
        /\ appearances' = done.appearances
        /\ UNCHANGED <<episodes, guests>>

CreateAppearance ==
    \E data \in Bodies :
        LET done == dispatch(create_appearance(data, store))
        IN  /\ done.appearances = appearances
               \/ Len(appearances) < Len(sample_appearances) + MaxPosts
            /\ req' = [op |-> "POST /appearances", data |-> data]
            /\ resp' = done.resp
            /\ appearances' = done.appearances
            /\ UNCHANGED <<episodes, guests>>

Next == Seed \/ GetEpisodes \/ GetEpisode \/ GetGuests \/ CreateAppearance

Spec == Init /\ [][Next]_vars

(***************************************************************************)
(* A second specification: the episodes table starts with rows inserted in *)
(* any order, as any process writing the store may leave it.               *)
(***************************************************************************)
\* number of rows of the initial episodes table
MaxEpisodes == 3

EpisodeRows == {[date |-> "1/11/99", number |-> n] : n \in {1, 2, 3}}
EpisodeTables == {add_all(<<>>, q) : q \in SeqsUpTo(EpisodeRows, MaxEpisodes)}

InitTables ==
    /\ episodes \in EpisodeTables
    /\ guests = <<>>
    /\ appearances = <<>>
    /\ req = [op |-> "start"]
    /\ resp = [status |-> 0, body |-> <<>>]

SpecTables == InitTables /\ [][Next]_vars

(***************************************************************************)
(* Properties.                                                             *)
(***************************************************************************)
IsPost == req.op = "POST /appearances"
IsObjectPost == IsPost /\ req.data.t = "object"
Tables == <<episodes, guests, appearances>>
InternalServerError == [status |-> 500, body |-> [error |-> "Internal server error"]]

\* C1: a POST /appearances with an object body answers 201 or 400; on 400
\* the appearances table is what it was and the body lists errors; a row is
\* written exactly when the answer is 201, and then it is one appended row.
C1_PersistedOrErrors ==
    [][ IsObjectPost'
            => /\ resp'.status \in {201, 400}
               /\ resp'.status = 400
                    => /\ appearances' = appearances
                       /\ resp'.body.errors # <<>>
                       /\ DOMAIN resp'.body = {"errors"}
               /\ resp'.status = 201
                    => /\ Len(appearances') = Len(appearances) + 1
                       /\ SubSeq(appearances', 1, Len(appearances)) = appearances
                       /\ "errors" \notin DOMAIN resp'.body
               /\ appearances' # appearances => resp'.status = 201 ]_vars

C1_Witness == IsObjectPost /\ resp.status = 201 /\ Len(appearances) = 27

RangeError == "Rating must be between 1 and 5 (inclusive)"

HasMessage(errors, m) == \E i \in 1..Len(errors) : errors[i] = m

\* C2: every appearance row has 1 <= rating <= 5; a POST with rating 0 or 6
\* is answered 400 with the rating-range error and writes no row; and
\* assigning a rating outside 1..5 raises, before anything is persisted.
C2_RatingInRange ==
    /\ [](\A i \in 1..Len(appearances) :
              appearances[i].rating >= 1 /\ appearances[i].rating <= 5)
    /\ [][ (IsObjectPost' /\ req'.data.rating \in {JInt(0), JInt(6)})
              => /\ resp'.status = 400
                 /\ HasMessage(resp'.body.errors, RangeError)
                 /\ appearances' = appearances ]_vars
    /\ [](\A r \in -1..7 : validate_rating(JInt(r)).ok <=> (1 <= r /\ r <= 5))

C2_Witness ==
    /\ IsObjectPost
    /\ req.data.rating = JInt(6)
    /\ req.data.episode_id = JInt(2)
    /\ req.data.guest_id = JInt(3)
    /\ resp.status = 400
    /\ Len(appearances) = 27

\* C3: no appearance row has a dangling reference: its episode_id is the id
\* of an episode row and its guest_id is the id of a guest row.
C3_NoDanglingReference ==
    \A i \in 1..Len(appearances) :
        /\ \E j \in 1..Len(episodes) : episodes[j].id = appearances[i].episode_id
        /\ \E j \in 1..Len(guests) : guests[j].id = appearances[i].guest_id

\* the three fields' violations, as the specification lists them
RatingInViolation(rating) ==
    rating.t # "int" \/ rating.n < 1 \/ rating.n > 5
EpisodeInViolation(episode_id) ==
    episode_id.t # "int" \/ ~\E j \in 1..Len(episodes) : episodes[j].id = episode_id.n
GuestInViolation(guest_id) ==
    guest_id.t # "int" \/ ~\E j \in 1..Len(guests) : guests[j].id = guest_id.n

RatingMessages == {"Rating is required", "Rating must be an integer", RangeError}
EpisodeMessages == {"Episode ID is required", "Episode not found"}
GuestMessages == {"Guest ID is required", "Guest not found"}

CountIn(errors, messages) == Cardinality({i \in 1..Len(errors) : errors[i] \in messages})

\* C4: the answer to a POST with a field in violation is 400, and its error
\* list holds one message for each field in violation, whatever the other
\* fields are; an episode_id matching no row gives "Episode not found".
C4_ErrorsAccumulate ==
    IsObjectPost =>
        LET data == req.data
            bad == RatingInViolation(data.rating) \/ EpisodeInViolation(data.episode_id)
                       \/ GuestInViolation(data.guest_id)
        IN  /\ bad => resp.status = 400
            /\ resp.status = 400 =>
                 /\ CountIn(resp.body.errors, RatingMessages)
                        = (IF RatingInViolation(data.rating) THEN 1 ELSE 0)
                 /\ CountIn(resp.body.errors, EpisodeMessages)
                        = (IF EpisodeInViolation(data.episode_id) THEN 1 ELSE 0)
                 /\ CountIn(resp.body.errors, GuestMessages)
                        = (IF GuestInViolation(data.guest_id) THEN 1 ELSE 0)
                 /\ (data.episode_id.t = "int" /\ EpisodeInViolation(data.episode_id))
                        => HasMessage(resp.body.errors, "Episode not found")

AsEpisodeEntry(row) == [id |-> row.id, date |-> row.date, number |-> row.number]
AsGuestEntry(row) == [id |-> row.id, name |-> row.name, occupation |-> row.occupation]

\* a <= b in the store's text order
BinaryLeq(a, b) == a = b \/ BinaryLess(a, b)

\* C5: GET /episodes answers 200 with one entry {id, date, number} per
\* episode row, in ascending number whatever the insertion order, and no
\* entry has an appearances field.
C5_EpisodesSortedByNumber ==
    req.op = "GET /episodes" =>
        /\ resp.status = 200
        /\ \A i \in 1..Len(resp.body) : DOMAIN resp.body[i] = {"id", "date", "number"}
        /\ \A i \in 1..Len(resp.body) : \A j \in 1..Len(resp.body) :
              i < j => resp.body[i].number <= resp.body[j].number
        /\ Len(resp.body) = Len(episodes)
        /\ \A k \in 1..Len(episodes) :
              Cardinality({i \in 1..Len(resp.body) : resp.body[i].id = episodes[k].id}) = 1
        /\ \A i \in 1..Len(resp.body) :
              \E k \in 1..Len(episodes) : resp.body[i] = AsEpisodeEntry(episodes[k])

\* rows inserted out of number order, then listed
C5_Witness ==
    /\ req.op = "GET /episodes"
    /\ Len(episodes) = 3
    /\ episodes[1].number > episodes[2].number
    /\ episodes[2].number < episodes[3].number
    /\ resp.status = 200

\* C6: GET /guests answers 200 with one entry {id, name, occupation} per
\* guest row, in ascending name, and no entry has an appearances field.
C6_GuestsSortedByName ==
    req.op = "GET /guests" =>
        /\ resp.status = 200
        /\ \A i \in 1..Len(resp.body) :
              DOMAIN resp.body[i] = {"id", "name", "occupation"}
        /\ \A i \in 1..Len(resp.body) : \A j \in 1..Len(resp.body) :
              i < j => BinaryLeq(resp.body[i].name, resp.body[j].name)
        /\ Len(resp.body) = Len(guests)
        /\ \A k \in 1..Len(guests) :
              Cardinality({i \in 1..Len(resp.body) : resp.body[i].id = guests[k].id}) = 1
        /\ \A i \in 1..Len(resp.body) :
              \E k \in 1..Len(guests) : resp.body[i] = AsGuestEntry(guests[k])

\* the sample guests, stored out of name order, listed
C6_Witness ==
    /\ req.op = "GET /guests"
    /\ Len(guests) = 8
    /\ resp.status = 200
    /\ resp.body[1].id = 4

CountAppearancesOf(episode_id) ==
    Cardinality({i \in 1..Len(appearances) : appearances[i].episode_id = episode_id})

\* C7: GET /episodes/{id} answers 404 {"error": "Episode not found"} when no
\* episode row has the id; otherwise 200 with as many appearances as there
\* are appearance rows of that episode.
C7_EpisodeDetail ==
    req.op = "GET /episodes/id" =>
        IF \E j \in 1..Len(episodes) : episodes[j].id = req.id
        THEN /\ resp.status = 200
             /\ Len(resp.body.appearances) = CountAppearancesOf(req.id)
        ELSE resp = [status |-> 404, body |-> [error |-> "Episode not found"]]

\* C8: a 201 answer repeats the request's rating, guest_id and episode_id,
\* nests the guest and episode rows they name, without appearances fields.
C8_CreatedBody ==
    (IsObjectPost /\ resp.status = 201) =>
        /\ JInt(resp.body.rating) = req.data.rating
        /\ JInt(resp.body.guest_id) = req.data.guest_id
        /\ JInt(resp.body.episode_id) = req.data.episode_id
        /\ \E j \in 1..Len(guests) :
              /\ guests[j].id = resp.body.guest_id
              /\ resp.body.guest = AsGuestEntry(guests[j])
        /\ \E j \in 1..Len(episodes) :
              /\ episodes[j].id = resp.body.episode_id
              /\ resp.body.episode = AsEpisodeEntry(episodes[j])

\* the requests whose view raises: a POST whose body is no object, and a
\* GET /episodes/{id} of an episode with an appearance whose guest is missing
Faults ==
    \/ IsPost /\ req.data.t # "object"
    \/ /\ req.op = "GET /episodes/id"
       /\ \E j \in 1..Len(episodes) : episodes[j].id = req.id
       /\ \E i \in 1..Len(appearances) :
             /\ appearances[i].episode_id = req.id
             /\ ~\E j \in 1..Len(guests) : guests[j].id = appearances[i].guest_id

C10_NoChangeToExistingData ==
    [][ /\ req'.op \in {"GET /episodes", "GET /episodes/id", "GET /guests"}
            => Tables' = Tables
        /\ IsPost'
            => /\ episodes' = episodes
               /\ guests' = guests
               /\ Len(appearances') >= Len(appearances)
               /\ SubSeq(appearances', 1, Len(appearances)) = appearances ]_vars

C10_Witness == IsObjectPost /\ resp.status = 201 /\ Len(appearances) = 28

(***************************************************************************)
(* A third specification: the store with rows deleted through the session. *)
(* No handler deletes; db.session.delete(obj) followed by commit is what   *)
(* the relationships' cascade='all, delete-orphan' declarations govern.    *)
(***************************************************************************)
\* variant of delete_episode: the relationship declared without cascade
delete_episode_no_cascade(episode_id, db) ==
    [db EXCEPT !.episodes = SelectSeq(@, LAMBDA e : e.id # episode_id)]

\* db.session.delete(episode); db.session.commit(): Episode.appearances has
\* cascade='all, delete-orphan', so the unit of work deletes the episode's
\* appearances with it
delete_episode(episode_id, db) ==
    [db EXCEPT !.episodes = SelectSeq(@, LAMBDA e : e.id # episode_id),
               !.appearances = SelectSeq(@, LAMBDA a : a.episode_id # episode_id)]

\* db.session.delete(guest); db.session.commit(): Guest.appearances has the
\* same cascade
delete_guest(guest_id, db) ==
    [db EXCEPT !.guests = SelectSeq(@, LAMBDA g : g.id # guest_id),
               !.appearances = SelectSeq(@, LAMBDA a : a.guest_id # guest_id)]

DeleteEpisodeIds == {2}
DeleteGuestIds == {3}

DeleteEpisode ==
    \E id \in DeleteEpisodeIds :
        /\ query_get(episodes, id) # None
        /\ LET left == delete_episode(id, store)
           IN  /\ episodes' = left.episodes
               /\ guests' = left.guests
               /\ appearances' = left.appearances
        /\ req' = [op |-> "delete episode", id |-> id]
        /\ resp' = [status |-> 0, body |-> <<>>]

DeleteGuest ==
    \E id \in DeleteGuestIds :
        /\ query_get(guests, id) # None
        /\ LET left == delete_guest(id, store)
           IN  /\ episodes' = left.episodes
               /\ guests' = left.guests
               /\ appearances' = left.appearances
        /\ req' = [op |-> "delete guest", id |-> id]
        /\ resp' = [status |-> 0, body |-> <<>>]

NextAdmin == Seed \/ CreateAppearance \/ DeleteEpisode \/ DeleteGuest

SpecAdmin == Init /\ [][NextAdmin]_vars

Max(S) == IF S = {} THEN 0 ELSE CHOOSE m \in S : \A x \in S : x <= m

\* the nesting depth of a serialized entity: 1 for a flat dict, one more for
\* each level of nested guest, episode or appearances
RECURSIVE Depth(_)
Depth(d) ==
    1 + Max( (IF "guest" \in DOMAIN d THEN {Depth(d.guest)} ELSE {})
             \cup (IF "episode" \in DOMAIN d THEN {Depth(d.episode)} ELSE {})
             \cup (IF "appearances" \in DOMAIN d
                   THEN {Depth(d.appearances[i]) : i \in 1..Len(d.appearances)}
                   ELSE {}) )

SameFields(a, b) ==
    a.rating = b.rating /\ a.guest_id = b.guest_id /\ a.episode_id = b.episode_id

\* C13: a POST answered 201 adds exactly one appearance row, with an id no
\* row of the table had and which the response repeats; a pair (guest_id,
\* episode_id) may repeat, so the same valid request sent again is answered
\* 201 again and adds another row with the same rating, guest_id, episode_id.
C13_OneNewRowPerPost ==
    [][ /\ (IsObjectPost' /\ resp'.status = 201)
            => /\ Len(appearances') = Len(appearances) + 1
               /\ SubSeq(appearances', 1, Len(appearances)) = appearances
               /\ \A i \in 1..Len(appearances) :
                     appearances[i].id # appearances'[Len(appearances')].id
               /\ resp'.body.id = appearances'[Len(appearances')].id
        /\ (IsObjectPost /\ resp.status = 201 /\ req' = req)
            => /\ resp'.status = 201
               /\ resp'.body.id # resp.body.id
               /\ SameFields(appearances'[Len(appearances')],
                             appearances[Len(appearances)]) ]_vars

\* the same valid request answered 201 twice: two rows, equal but for the id
C13_Witness ==
    /\ IsObjectPost
    /\ resp.status = 201
    /\ Len(appearances) = 28
    /\ SameFields(appearances[27], appearances[28])
    /\ appearances[27].id # appearances[28].id

====
